---- MODULE Spec2Model ----
(***************************************************************************)
(* Primal (Kannan embedding) attack on LWE: src/src/main.py.               *)
(*                                                                         *)
(* Vectors and matrices are functions over 0..len-1, as the code indexes   *)
(* them.  None is the empty tuple.  The noise rate alpha is kept as an     *)
(* integer number of thousandths (0.001 is 1, 0.005 is 5), and the float   *)
(* test  norm < 2.0 * alpha * q * sqrt(m)  is decided on the squares,      *)
(*   sum(diff^2) * 1000^2 < 4 * alpha^2 * q^2 * m,                         *)
(* which agrees with the float comparison away from exact ties; no tie     *)
(* occurs for the moduli drawn here.  numpy's int64 does not overflow on   *)
(* any value met here.                                                     *)
(***************************************************************************)
EXTENDS Integers, Sequences, FiniteSets, TLC

VARIABLES pc, n, m, q, alpha, A, s, e, b, B, err, lll_calls, bkz_calls,
          recovered_s, trace, args, out

vars == <<pc, n, m, q, alpha, A, s, e, b, B, err, lll_calls, bkz_calls,
          recovered_s, trace, args, out>>

\* ------------------------------------------------------------------ bounds
MaxDim == 2
MaxQ == 3
MaxErr == 1
MaxCoef == 1
MaxXY == 4
MaxCDQ == 6
MaxLenB == 3
MaxAMul == 2
MaxSMul == 2
MaxEMag == 1

\* ------------------------------------------------------- program constants
\* range(min(10, B.nrows))
MaxRows == 10
\* def verify_candidate(A, b, s_cand, q, alpha=0.005), in thousandths
DefaultAlpha == 5

None == <<>>

Min(x, y) == IF x < y THEN x ELSE y

Abs(x) == IF x < 0 THEN -x ELSE x

\* ----------------------------------------------------------- arithmetic
\* Python's and numpy's % for a positive modulus: the result is in [0, q).
PyMod(x, k) == x % k

\* The remainder of a division truncating toward zero (C's %), which keeps
\* the sign of x.
TruncRem(x, k) == IF x >= 0 THEN x % k ELSE -((-x) % k)

RECURSIVE SumTo(_, _)
\* f[0] + ... + f[k-1]
SumTo(f, k) == IF k <= 0 THEN 0 ELSE f[k - 1] + SumTo(f, k - 1)

Len0(v) == Cardinality(DOMAIN v)

\* np.dot(A, v)[i]
Dot(M, v, i) == SumTo([j \in DOMAIN v |-> M[i][j] * v[j]], Len0(v))

\* A.shape
Rows(M) == Len0(M)
Cols(M) == Len0(M[0])

Vec(len, S) == [0..(len - 1) -> S]
Mat(r, c, S) == [0..(r - 1) -> [0..(c - 1) -> S]]

\* ------------------------------------------------------ LWEInstance.generate
generate_b_trunc(AA, ss, ee, qq) ==
    [i \in DOMAIN AA |-> TruncRem(Dot(AA, ss, i) + ee[i], qq)]

\* self.b = (np.dot(self.A, self.s) + self.e) % self.q
generate_b(AA, ss, ee, qq) ==
    [i \in DOMAIN AA |-> PyMod(Dot(AA, ss, i) + ee[i], qq)]

\* ------------------------------------------------------- centered difference
centered_diff_trunc(x, y, k) == TruncRem(x - y + (k \div 2), k) - (k \div 2)

\* diff = (b - b_prime + q//2) % q - q//2, per coordinate
centered_diff(x, y, k) == PyMod(x - y + (k \div 2), k) - (k \div 2)

\* np.linalg.norm(diff) ** 2 for the centered difference of bb and
\* np.dot(AA, cand) % qq
norm_sq(AA, bb, cand, qq) ==
    LET b_prime == [i \in DOMAIN bb |-> PyMod(Dot(AA, cand, i), qq)]
        diff == [i \in DOMAIN bb |-> centered_diff(bb[i], b_prime[i], qq)]
    IN  SumTo([i \in DOMAIN bb |-> diff[i] * diff[i]], Len0(bb))

\* norm < expected_norm * 2.0, expected_norm = al/1000 * qq * sqrt(len):
\* nsq * 1000^2 < 4 * al^2 * qq^2 * len, for the integer nsq
below_limit(nsq, al, qq, len) ==
    nsq <= (4 * al * al * qq * qq * len - 1) \div (1000 * 1000)

verify_candidate_al(AA, bb, s_cand, qq, al) ==
    below_limit(norm_sq(AA, bb, s_cand, qq), al, qq, Len0(bb))

\* verify_candidate(A, b, s_cand, q): alpha is left at its default
verify_candidate(AA, bb, s_cand, qq) ==
    verify_candidate_al(AA, bb, s_cand, qq, DefaultAlpha)

\* LWEInstance.check_solution: is_correct, the statistical test with self.alpha
is_correct(AA, bb, cand, qq, al, mm) ==
    below_limit(norm_sq(AA, bb, cand, qq), al, qq, mm)

\* LWEInstance.check_solution
check_solution(AA, bb, ss, qq, al, mm, cand) ==
    IF cand = None THEN FALSE
    ELSE is_correct(AA, bb, cand, qq, al, mm) \/ cand = ss

\* ------------------------------------------------------ build_primal_lattice
\* IntegerMatrix(d, d): all zero
ZeroMatrix(d) == [i \in 0..(d - 1) |-> [j \in 0..(d - 1) |-> 0]]

SetEntry(BB, i, j, v) == [BB EXCEPT ![i][j] = v]

RECURSIVE FillQ(_, _, _, _)
\* for i in range(m): B[i, i] = q
FillQ(BB, i, mm, qq) ==
    IF i >= mm THEN BB ELSE FillQ(SetEntry(BB, i, i, qq), i + 1, mm, qq)

\* the column of A written as a column of B (A right of q*I_m) instead of as
\* the row m+i
FillARow_untransposed(BB, AA, i, mm) ==
    [r \in DOMAIN BB |->
        IF r < mm THEN [BB[r] EXCEPT ![mm + i] = AA[r][i]] ELSE BB[r]]

\* for j in range(m): B[row_idx, j] = int(A[j, i]): the writes of the loop,
\* which touch row m+i, columns 0..m-1
FillARow(BB, AA, i, mm) ==
    [BB EXCEPT ![mm + i] =
        [j \in DOMAIN BB[mm + i] |-> IF j < mm THEN AA[j][i] ELSE BB[mm + i][j]]]

RECURSIVE FillA(_, _, _, _, _)
\* for i in range(n): the row of A^T, then B[row_idx, m + i] = 1
FillA(BB, AA, i, mm, nn) ==
    IF i >= nn THEN BB
    ELSE FillA(SetEntry(FillARow(BB, AA, i, mm), mm + i, mm + i, 1),
               AA, i + 1, mm, nn)

RECURSIVE FillB(_, _, _, _, _)
\* for j in range(m): B[row_last, j] = int(b[j]); b[j] past the end of b
\* raises IndexError
FillB(BB, bb, j, mm, nn) ==
    IF j >= mm THEN [kind |-> "ok", B |-> BB]
    ELSE IF j \notin DOMAIN bb THEN [kind |-> "IndexError", B |-> None]
    ELSE FillB(SetEntry(BB, mm + nn, j, bb[j]), bb, j + 1, mm, nn)

\* B[row_last, m + n] = 1
embedding_factor == 1

build_primal_lattice(AA, bb, qq) ==
    LET mm == Rows(AA)
        nn == Cols(AA)
        d == mm + nn + 1
        B1 == FillQ(ZeroMatrix(d), 0, mm, qq)
        B2 == FillA(B1, AA, 0, mm, nn)
        r3 == FillB(B2, bb, 0, mm, nn)
    IN  IF r3.kind # "ok" THEN r3
        ELSE [kind |-> "ok",
              B |-> SetEntry(r3.B, mm + nn, mm + nn, embedding_factor)]

\* ------------------------------------------- primal_attack: candidate search
\* the slice taken one column too far right: range(m + 1, m + n + 1)
s_slice_shifted(v, mm, nn) == [j \in 0..(nn - 1) |-> v[mm + j + 1]]

\* s_candidate = [v[j] for j in range(m, m + n)]
s_slice(v, mm, nn) == [j \in 0..(nn - 1) |-> v[mm + j]]

pos_variant_trunc(raw, qq) == [j \in DOMAIN raw |-> TruncRem(raw[j], qq)]

\* s_cand_mod = s_candidate % q
pos_variant(raw, qq) == [j \in DOMAIN raw |-> PyMod(raw[j], qq)]

\* s_cand_neg_mod = (-s_candidate) % q
neg_variant(raw, qq) == [j \in DOMAIN raw |-> PyMod(-raw[j], qq)]

\* every row scanned: range(B.nrows)
scan_limit_uncapped(BB) == Rows(BB)

\* range(min(10, B.nrows))
scan_limit(BB) == Min(MaxRows, Rows(BB))

RECURSIVE scan(_, _, _, _, _, _)
\* The loop over row_idx, from row_idx on.  tr lists the variants handed to
\* verify_candidate so far, in order, as <<row, sign>>.
scan(BB, AA, bb, qq, row_idx, tr) ==
    IF row_idx >= scan_limit(BB) THEN [s |-> None, trace |-> tr]
    ELSE LET raw == s_slice(BB[row_idx], Rows(AA), Cols(AA))
             s_cand_mod == pos_variant(raw, qq)
             s_cand_neg_mod == neg_variant(raw, qq)
             tr1 == Append(tr, <<row_idx, "pos">>)
             tr2 == Append(tr1, <<row_idx, "neg">>)
         IN  IF verify_candidate(AA, bb, s_cand_mod, qq)
             THEN [s |-> s_cand_mod, trace |-> tr1]
             ELSE IF verify_candidate(AA, bb, s_cand_neg_mod, qq)
             THEN [s |-> s_cand_neg_mod, trace |-> tr2]
             ELSE scan(BB, AA, bb, qq, row_idx + 1, tr2)

\* --------------------------------------------------------- reduction oracle
\* LLL.reduction and BKZ.reduction are fpylll's: the basis they leave is some
\* basis of the same lattice.  Here it is the given basis, or one elementary
\* step of a reduction away from it: two adjacent rows swapped, a row
\* negated, or a multiple of an earlier row added to a later one.
RowSwap(BB, i, j) == [BB EXCEPT ![i] = BB[j], ![j] = BB[i]]

RowNeg(BB, i) == [BB EXCEPT ![i] = [k \in DOMAIN BB[i] |-> -BB[i][k]]]

RowAdd(BB, i, j, c) ==
    [BB EXCEPT ![i] = [k \in DOMAIN BB[i] |-> BB[i][k] + c * BB[j][k]]]

OracleOut(BB) ==
    {BB}
    \cup {RowSwap(BB, i - 1, i) : i \in (DOMAIN BB) \ {0}}
    \cup {RowNeg(BB, i) : i \in DOMAIN BB}
    \cup UNION {{RowAdd(BB, ij[1], ij[2], c) :
                    c \in (-MaxCoef..MaxCoef) \ {0}} :
                 ij \in {x \in (DOMAIN BB) \X (DOMAIN BB) : x[2] < x[1]}}

\* ------------------------------------------------------------------ driver
\* main: alpha = 0.001, in thousandths
MainAlpha == 1

\* main: bkz_block_size = 25
MainBlockSize == 25

\* lwe = LWEInstance(n, m, q, alpha)
Init ==
    /\ pc = "Init"
    /\ n \in 1..MaxDim
    /\ m \in 1..MaxDim
    /\ n + m <= MaxDim + 1
    /\ q \in 2..MaxQ
    /\ alpha = MainAlpha
    /\ A = None /\ s = None /\ e = None /\ b = None
    /\ B = None
    /\ err = "none"
    /\ lll_calls = 0
    /\ bkz_calls = <<>>
    /\ recovered_s = None
    /\ trace = <<>>
    /\ args = [block_size |-> MainBlockSize]
    /\ out = None

\* A, b = lwe.generate()
Generate ==
    /\ pc = "Init"
    /\ \E AA \in Mat(m, n, 0..(q - 1)), ss \in Vec(n, 0..(q - 1)),
          ee \in Vec(m, (-MaxErr)..MaxErr) :
          /\ A' = AA
          /\ s' = ss
          /\ e' = ee
          /\ b' = generate_b(AA, ss, ee, q)
    /\ pc' = "InstanceGenerated"
    /\ UNCHANGED <<n, m, q, alpha, B, err, lll_calls, bkz_calls,
                   recovered_s, trace, args, out>>

\* B = build_primal_lattice(A, b, q); an exception leaves primal_attack
Build ==
    /\ pc = "InstanceGenerated"
    /\ LET r == build_primal_lattice(A, b, q)
       IN  IF r.kind = "ok"
           THEN /\ B' = r.B
                /\ pc' = "LatticeBuilt"
                /\ err' = err
           ELSE /\ B' = B
                /\ pc' = "Raised"
                /\ err' = r.kind
    /\ UNCHANGED <<n, m, q, alpha, A, s, e, b, lll_calls, bkz_calls,
                   recovered_s, trace, args, out>>

\* LLL.reduction(B)
RunLLL ==
    /\ pc = "LatticeBuilt"
    /\ B' \in OracleOut(B)
    /\ lll_calls' = lll_calls + 1
    /\ pc' = "LLLDone"
    /\ UNCHANGED <<n, m, q, alpha, A, s, e, b, err, bkz_calls,
                   recovered_s, trace, args, out>>

\* BKZ.reduction(B, BKZ.Param(block_size))
RunBKZ ==
    /\ pc = "LLLDone"
    /\ B' \in OracleOut(B)
    /\ bkz_calls' = Append(bkz_calls, args.block_size)
    /\ pc' = "Reduced"
    /\ UNCHANGED <<n, m, q, alpha, A, s, e, b, err, lll_calls,
                   recovered_s, trace, args, out>>

\* the for loop of primal_attack and its return
Search ==
    /\ pc = "Reduced"
    /\ LET r == scan(B, A, b, q, 0, <<>>)
       IN  /\ recovered_s' = r.s
           /\ trace' = r.trace
    /\ pc' = "Searched"
    /\ UNCHANGED <<n, m, q, alpha, A, s, e, b, B, err, lll_calls, bkz_calls,
                   args, out>>

Report_inverted ==
    /\ pc = "Searched"
    /\ pc' = IF recovered_s = None THEN "Succeeded" ELSE "Failed"
    /\ UNCHANGED <<n, m, q, alpha, A, s, e, b, B, err, lll_calls, bkz_calls,
                   recovered_s, trace, args, out>>

\* main: if recovered_s is not None: ... else: ...
Report ==
    /\ pc = "Searched"
    /\ pc' = IF recovered_s # None THEN "Succeeded" ELSE "Failed"
    /\ UNCHANGED <<n, m, q, alpha, A, s, e, b, B, err, lll_calls, bkz_calls,
                   recovered_s, trace, args, out>>

Next == Generate \/ Build \/ RunLLL \/ RunBKZ \/ Search \/ Report

Spec == Init /\ [][Next]_vars

\* ------------------------------------- the centered difference on its own
InitCD ==
    /\ pc = "cd_call"
    /\ args \in [x : (-MaxXY)..MaxXY, y : (-MaxXY)..MaxXY, q : 1..MaxCDQ]
    /\ out = None
    /\ n = 0 /\ m = 0 /\ q = 0 /\ alpha = 0
    /\ A = None /\ s = None /\ e = None /\ b = None /\ B = None
    /\ err = "none" /\ lll_calls = 0 /\ bkz_calls = <<>>
    /\ recovered_s = None /\ trace = <<>>

\* (x - y + q//2) % q - q//2
ApplyCD ==
    /\ pc = "cd_call"
    /\ out' = centered_diff(args.x, args.y, args.q)
    /\ pc' = "cd_done"
    /\ UNCHANGED <<n, m, q, alpha, A, s, e, b, B, err, lll_calls, bkz_calls,
                   recovered_s, trace, args>>

CDSpec == InitCD /\ [][ApplyCD]_vars

\* --------------------------- build_primal_lattice on any A and any length b
InitBuild ==
    /\ pc = "InstanceGenerated"
    /\ n \in 1..MaxDim
    /\ m \in 1..MaxDim
    /\ n + m <= MaxDim + 1
    /\ q \in 2..MaxQ
    /\ alpha = MainAlpha
    /\ A \in Mat(m, n, 0..(q - 1))
    /\ b \in UNION {Vec(len, 0..(q - 1)) : len \in 0..MaxLenB}
    /\ s = None /\ e = None /\ B = None
    /\ err = "none" /\ lll_calls = 0 /\ bkz_calls = <<>>
    /\ recovered_s = None /\ trace = <<>>
    /\ args = [block_size |-> MainBlockSize]
    /\ out = None

BuildSpec == InitBuild /\ [][Build]_vars

\* ----------------- the candidate search on a basis with a row put in by hand
\* scenario A's instance (n=4, m=20, q=101, alpha=0.001) and one of fewer
\* rows than the search scans
Scenarios ==
    {[n |-> 4, m |-> 20, q |-> 101, alpha |-> 1],
     [n |-> 2, m |-> 3, q |-> 101, alpha |-> 5]}

\* draws of A: the zero matrix (c = 0), else c * (i+1)^(j+1) mod q, of full
\* column rank
AFamily(c, mm, nn, qq) ==
    [i \in 0..(mm - 1) |-> [j \in 0..(nn - 1) |-> (c * (i + 1)^(j + 1)) % qq]]

\* draws of s: zero (c = 0), else c * (37j + 1) mod q
SFamily(c, nn, qq) == [j \in 0..(nn - 1) |-> (c * (37 * j + 1)) % qq]

\* draws of e: cnt leading entries of magnitude mag and alternating sign
EFamily(cnt, mag, mm) ==
    [i \in 0..(mm - 1) |->
        IF i < cnt THEN (IF i % 2 = 0 THEN mag ELSE -mag) ELSE 0]

\* (sg*e, sg*s, sg*1) for an instance AA, ss, ee
TrueRow(ss, ee, sg) ==
    [k \in 0..(Len0(ee) + Len0(ss)) |->
        IF k < Len0(ee) THEN sg * ee[k]
        ELSE IF k < Len0(ee) + Len0(ss) THEN sg * ss[k - Len0(ee)] ELSE sg]

\* the built basis, or the built basis with row r replaced by the true
\* vector or its negation
SyntheticBases(BB, ss, ee) ==
    {BB} \cup {[BB EXCEPT ![r] = TrueRow(ss, ee, sg)] :
                  r \in DOMAIN BB, sg \in {1, -1}}

InitSearch ==
    /\ pc = "Reduced"
    /\ \E cfg \in Scenarios :
          /\ n = cfg.n /\ m = cfg.m /\ q = cfg.q /\ alpha = cfg.alpha
    /\ \E c \in 0..MaxAMul : A = AFamily(c, m, n, q)
    /\ \E c \in 0..MaxSMul : s = SFamily(c, n, q)
    /\ \E cnt \in {0, 1, m}, mag \in 1..MaxEMag : e = EFamily(cnt, mag, m)
    /\ b = generate_b(A, s, e, q)
    /\ B \in SyntheticBases(build_primal_lattice(A, b, q).B, s, e)
    /\ err = "none" /\ lll_calls = 0 /\ bkz_calls = <<>>
    /\ recovered_s = None /\ trace = <<>>
    /\ args = [block_size |-> MainBlockSize]
    /\ out = None

NextSearch == Search \/ Report

SearchSpec == InitSearch /\ [][NextSearch]_vars

\* The driver's steps are taken one after another: nothing but the steps
\* themselves can keep the run from going on.
\* The order of the stages does not depend on the instance: the smallest one
\* (n = 1, m = 1, q = 2), with every error and every outcome of the oracle.
LiveInit == Init /\ n = 1 /\ m = 1 /\ q = 2

LiveSpec == LiveInit /\ [][Next]_vars /\ WF_vars(Next)

\* generate() and build_primal_lattice alone: the run up to the built basis
NextGen == Generate \/ Build

GenSpec == Init /\ [][NextGen]_vars

\* ================================================================== claims
Generated == pc \in {"InstanceGenerated", "LatticeBuilt", "LLLDone",
                     "Reduced", "Searched", "Succeeded", "Failed"}

\* q divides x
Divides(k, x) == \E c \in (-(Abs(x) + 1))..(Abs(x) + 1) : x = c * k

\* C1: after generate(), every b[i] lies in [0, q) and is congruent to
\* sum_j A[i][j]*s[j] + e[i] modulo q, also where e[i] is negative.
C1_Relation ==
    Generated =>
        \A i \in 0..(m - 1) :
            /\ b[i] \in 0..(q - 1)
            /\ Divides(q, Dot(A, s, i) + e[i] - b[i])

\* a generated instance with a negative A.s + e in some coordinate
C1_Witness ==
    /\ pc = "InstanceGenerated"
    /\ \E i \in 0..(m - 1) : e[i] < 0 /\ Dot(A, s, i) + e[i] < 0 /\ b[i] = q - 1

\* the block layout of the embedding basis, entry by entry
Layout(AA, bb, qq, mm, nn, i, j) ==
    IF i < mm THEN (IF j = i THEN qq ELSE 0)
    ELSE IF i < mm + nn
         THEN (IF j < mm THEN AA[j][i - mm] ELSE IF j = i THEN 1 ELSE 0)
         ELSE (IF j < mm THEN bb[j] ELSE IF j = mm + nn THEN 1 ELSE 0)

\* C3: build_primal_lattice returns the (m+n+1) x (m+n+1) matrix of the block
\* layout, and its last column holds one nonzero entry, the 1 of the last row.
C3_Layout ==
    pc = "LatticeBuilt" =>
        LET d == m + n + 1
        IN  /\ DOMAIN B = 0..(d - 1)
            /\ \A i \in 0..(d - 1) :
                   /\ DOMAIN B[i] = 0..(d - 1)
                   /\ \A j \in 0..(d - 1) : B[i][j] = Layout(A, b, q, m, n, i, j)
            /\ {i \in 0..(d - 1) : B[i][m + n] # 0} = {m + n}
            /\ B[m + n][m + n] = 1

\* a built basis of a 2 x 1 instance whose A column and b are not constant
C3_Witness ==
    /\ pc = "LatticeBuilt"
    /\ m = 2
    /\ A[0][0] # A[1][0]
    /\ b[0] # b[1]
    /\ B[m][0] = A[0][0]
    /\ B[m][1] = A[1][0]
    /\ B[m + n][0] = b[0]

\* ------------------------------------------------------------------- C9
\* the vector (se*e, ss*s, sl*1) of length m+n+1
Embedded(se, ss, sl) ==
    [k \in 0..(m + n) |->
        IF k < m THEN se * e[k] ELSE IF k < m + n THEN ss * s[k - m] ELSE sl]

RECURSIVE BackSub(_, _, _)
\* Whether v is an integer combination of the rows of the lower triangular
\* BB (diagonal positive), deciding the rows' coefficients from the last row
\* up: row i's is (what is left of v)[i] / BB[i][i].
BackSub(BB, v, i) ==
    IF i < 0 THEN \A k \in DOMAIN v : v[k] = 0
    ELSE /\ v[i] % BB[i][i] = 0
         /\ LET c == v[i] \div BB[i][i]
            IN  BackSub(BB, [k \in DOMAIN v |-> v[k] - c * BB[i][k]], i - 1)

InLattice(BB, v) == BackSub(BB, v, Rows(BB) - 1)

\* the last row, minus the s-weighted middle rows, plus k[i] times q row i
Combination(BB, k) ==
    [c \in 0..(m + n) |->
        BB[m + n][c]
        - SumTo([j \in 0..(n - 1) |-> s[j] * BB[m + j][c]], n)
        + SumTo([i \in 0..(m - 1) |-> k[i] * BB[i][c]], m)]

\* the multiples of the q rows that cancel A.s + e - b: floor((A.s + e)/q)
QMultiples == [i \in 0..(m - 1) |-> (Dot(A, s, i) + e[i]) \div q]

SearchDone == pc \in {"Searched", "Succeeded", "Failed"}

\* the candidate of row r with sign sg, as the search builds it
Variant(r, sg) ==
    IF sg = 0 THEN pos_variant(s_slice(B[r], m, n), q)
    ELSE neg_variant(s_slice(B[r], m, n), q)

Passes(r, sg) == verify_candidate(A, b, Variant(r, sg), q)

\* row-then-sign order: row r's positive variant is 2r, its negative 2r+1
ScannedRows == 0..(Min(MaxRows, m + n + 1) - 1)

\* C4: the search returns the first variant, in row-then-sign order, that
\* passes verification: nothing before it passes, its entries are in [0, q),
\* and it returns None exactly when no scanned variant passes.
C4_FirstMatch ==
    SearchDone =>
        /\ recovered_s = None <=>
               \A r \in ScannedRows, sg \in {0, 1} : ~Passes(r, sg)
        /\ recovered_s # None =>
               /\ \A j \in 0..(n - 1) : recovered_s[j] \in 0..(q - 1)
               /\ \E r \in ScannedRows, sg \in {0, 1} :
                      /\ recovered_s = Variant(r, sg)
                      /\ Passes(r, sg)
                      /\ \A r2 \in ScannedRows, sg2 \in {0, 1} :
                             2 * r2 + sg2 < 2 * r + sg => ~Passes(r2, sg2)

\* a search that returned the negative variant of row 2, a row with negative
\* entries in its secret slice, after five variants that failed
C4_Witness ==
    /\ pc = "Searched"
    /\ recovered_s # None
    /\ Len(trace) = 6
    /\ \E j \in 0..(n - 1) : B[2][m + j] < 0 /\ recovered_s[j] = -B[2][m + j]

\* ------------------------------------------------------------------- C10
\* the stage of the run: the LLL pass alone has not yet reduced the basis
Stage == IF pc = "LLLDone" THEN "LatticeBuilt" ELSE pc

StageOrder ==
    {<<"Init", "InstanceGenerated">>, <<"InstanceGenerated", "LatticeBuilt">>,
     <<"LatticeBuilt", "Reduced">>, <<"Reduced", "Searched">>,
     <<"Searched", "Succeeded">>, <<"Searched", "Failed">>}

Terminal == {"Succeeded", "Failed"}

\* C10: the run goes through Init, InstanceGenerated, LatticeBuilt, Reduced
\* (one LLL pass, then one BKZ pass at the configured block size), Searched in
\* this order, never back, and ends in Succeeded exactly when a candidate was
\* found and in Failed, a normal result, otherwise; nothing leaves either.
C10_Stages ==
    /\ [][Stage' # Stage => <<Stage, Stage'>> \in StageOrder]_vars
    /\ [](pc = "LatticeBuilt" => lll_calls = 0 /\ bkz_calls = <<>>)
    /\ [](pc = "LLLDone" => lll_calls = 1 /\ bkz_calls = <<>>)
    /\ [](Stage \in {"Reduced", "Searched"} \cup Terminal =>
              lll_calls = 1 /\ bkz_calls = <<args.block_size>>)
    /\ [](pc = "Succeeded" => recovered_s # None)
    /\ [](pc = "Failed" => recovered_s = None /\ err = "none")
    /\ [][(pc \in Terminal) => UNCHANGED pc]_vars
    /\ <>(pc \in Terminal)

\* a run that ended in Failed after one LLL and one BKZ pass and a full scan
C10_Witness ==
    /\ pc = "Failed"
    /\ lll_calls = 1
    /\ Len(bkz_calls) = 1
    /\ Len(trace) = 2 * (m + n + 1)

\* ------------------------------------------------------------------- C2
\* C2 as stated: the centered difference is congruent to x - y modulo q and
\* lies in (-q/2, q/2].
C2_Original ==
    pc = "cd_done" =>
        /\ Divides(args.q, out - (args.x - args.y))
        /\ -args.q < 2 * out
        /\ 2 * out <= args.q

\* C2 amended: the centered difference is congruent to x - y modulo q and
\* lies in [-q/2, q/2): -q/2 itself is returned for even q, q/2 never.
C2_Amended ==
    pc = "cd_done" =>
        /\ Divides(args.q, out - (args.x - args.y))
        /\ -args.q <= 2 * out
        /\ 2 * out < args.q

\* an even modulus, a negative x - y + q//2, and the result -q/2
C2_Witness ==
    /\ pc = "cd_done"
    /\ args.q % 2 = 0
    /\ args.x - args.y + (args.q \div 2) < 0
    /\ 2 * out = -args.q

\* ------------------------------------------------------------------- C7
\* C7: with len(b) different from the number of rows of A,
\* build_primal_lattice fails and returns no matrix.
C7_ShapeMismatch ==
    (pc \in {"LatticeBuilt", "Raised"} /\ Len0(b) # Rows(A)) =>
        /\ pc = "Raised"
        /\ B = None

\* ------------------------------------------------------------------- C5
\* C5: the test the search applies to a candidate accepts it exactly when
\* the statistical criterion of check_solution, with the instance's alpha,
\* accepts it.
C5_SameAlpha ==
    SearchDone =>
        \A r \in ScannedRows, sg \in {0, 1} :
            Passes(r, sg) <=> is_correct(A, b, Variant(r, sg), q, alpha, m)

\* ------------------------------------------------------------------- C6
ScenarioA == n = 4 /\ m = 20 /\ q = 101 /\ alpha = 1

SumSq(v) == SumTo([i \in DOMAIN v |-> v[i] * v[i]], Len0(v))

\* C6 as stated: in scenario A, a basis with a row (e, s, 1) or (-e, -s, -1)
\* makes the search return s.
C6_Original ==
    (/\ pc = "Searched"
     /\ ScenarioA
     /\ \E r \in DOMAIN B : B[r] \in {TrueRow(s, e, 1), TrueRow(s, e, -1)})
    => recovered_s = s

\* the variant of row r that is s when row r is (e, s, 1) (the positive one)
\* or (-e, -s, -1) (the negative one)
TrueVariantAt(r, sg) ==
    \/ sg = 0 /\ B[r] = TrueRow(s, e, 1)
    \/ sg = 1 /\ B[r] = TrueRow(s, e, -1)

\* C6 amended: in scenario A the search returns s when (e, s, 1) or its
\* negation is one of the first 10 rows, the squared norm of e is at most 20
\* (so that s passes the test at alpha = 0.005), and no variant before the
\* one that yields s passes verification.
C6_Amended ==
    (/\ pc = "Searched"
     /\ ScenarioA
     /\ SumSq(e) <= 20
     /\ \E r \in ScannedRows, sg \in {0, 1} :
            /\ TrueVariantAt(r, sg)
            /\ \A r2 \in ScannedRows, sg2 \in {0, 1} :
                   2 * r2 + sg2 < 2 * r + sg => ~Passes(r2, sg2))
    => recovered_s = s

\* scenario A with a nonzero secret and error, (-e, -s, -1) in row 3, and s
\* returned
C6_Witness ==
    /\ pc = "Searched"
    /\ ScenarioA
    /\ B[3] = TrueRow(s, e, -1)
    /\ SumSq(e) > 0
    /\ SumSq(s) > 0
    /\ Len(trace) = 8
    /\ recovered_s = s

\* ------------------------------------------------------------------- C8
\* the rows whose variants were handed to verify_candidate
VerifiedRows == {trace[k][1] : k \in 1..Len(trace)}

====
